---- MODULE Spec2Model ----
(***************************************************************************)
(* Model of the foodgram backend: the Base62 short-link codec of           *)
(* api/utils.py and the HTTP views of api/views.py that use it.            *)
(*                                                                         *)
(* A Python str is modelled as a sequence of one-character strings, a      *)
(* Python value handed to the codec as a record [kind, val] (kind is the   *)
(* Python type name), and the outcome of a call as a record                *)
(* [exc |-> "none", val |-> v] (returned v) or [exc |-> e] (raised e).     *)
(***************************************************************************)
EXTENDS Integers, Sequences, FiniteSets, Bags, TLC

VARIABLES
    number,       \* argument of encode_base62
    encoded,      \* outcome of encode_base62(number)
    encoded_str,  \* argument of decode_base62
    decoded,      \* outcome of decode_base62(encoded_str)
    recipes,      \* primary keys of the stored Recipe rows
    lastId,       \* last primary key handed out by the Recipe sequence
    nCreated,     \* number of Recipe rows ever created
    links,        \* short links handed to clients by get_short_link
    last,         \* the last HTTP request served and its response
    ingredients_queryset,   \* argument of generate_shopping_list_content
    shopping_list_content,  \* outcome of generate_shopping_list_content
    recipe_author,          \* Recipe.author of the stored recipes
    recipe_name,            \* Recipe.name of the stored recipes
    recipe_ingredients,     \* the RecipeIngredient rows
    shopping_cart,          \* the ShoppingCart rows, a bag of (user, recipe)
    favorites,              \* the Favorite rows, a bag of (user, recipe)
    in_flight,              \* favorite and shopping_cart requests being served
    calls,                  \* the call each thread makes into api/utils.py
    arguments,              \* the object each thread passes to its call
    locals,                 \* the local variables of each call
    subscriptions,          \* the Subscription rows, a bag of (user, author)
    transactions            \* the open transactions of recipe updates

codecVars == <<number, encoded, encoded_str, decoded>>
siteVars == <<recipes, lastId, nCreated, links, last>>
renderVars == <<ingredients_queryset, shopping_list_content>>
shopVars == <<recipe_author, recipe_name, recipe_ingredients, shopping_cart,
              favorites>>
threadVars == <<in_flight, calls, arguments, locals>>
nonCodecVars == <<siteVars, renderVars, shopVars, threadVars, subscriptions,
                  transactions>>
nonSiteVars == <<codecVars, renderVars, shopVars, threadVars, subscriptions,
                 transactions>>
vars == <<number, encoded, encoded_str, decoded,
          recipes, lastId, nCreated, links, last,
          ingredients_queryset, shopping_list_content,
          recipe_author, recipe_name, recipe_ingredients, shopping_cart,
          favorites,
          in_flight, calls, arguments, locals, subscriptions, transactions>>

----------------------------------------------------------------------------
(* Bounds of the model *)

MaxNumber == 400      \* encode_base62 is tried on every int in 0..MaxNumber
MaxNegative == 3      \* and on every int in -MaxNegative..-1
MaxLen == 3           \* decode_base62 is tried on every str up to MaxLen
MaxPad == 1           \* leading zero characters added in front of a str
MaxRecipes == 3       \* Recipe rows created in one behaviour
MaxPathLen == 2       \* length of a hand-typed /s/<short_id>/ segment
MaxInFlight == 2      \* favorite and shopping_cart requests served at a time
MaxRows == 2          \* rows handed to generate_shopping_list_content
MaxCartRecipes == 2   \* recipes published with their ingredient rows

----------------------------------------------------------------------------
(* api/utils.py *)

\* string.digits + string.ascii_lowercase + string.ascii_lowercase
BASE62_ALPHABET_lowercaseTwice ==
    << "0", "1", "2", "3", "4", "5", "6", "7", "8", "9", "a", "b", "c", "d", "e", "f",
       "g", "h", "i", "j", "k", "l", "m", "n", "o", "p", "q", "r", "s", "t", "u", "v",
       "w", "x", "y", "z", "a", "b", "c", "d", "e", "f", "g", "h", "i", "j", "k", "l",
       "m", "n", "o", "p", "q", "r", "s", "t", "u", "v", "w", "x", "y", "z" >>

BASE62_ALPHABET ==
    << "0", "1", "2", "3", "4", "5", "6", "7", "8", "9", "a", "b", "c", "d", "e", "f",
       "g", "h", "i", "j", "k", "l", "m", "n", "o", "p", "q", "r", "s", "t", "u", "v",
       "w", "x", "y", "z", "A", "B", "C", "D", "E", "F", "G", "H", "I", "J", "K", "L",
       "M", "N", "O", "P", "Q", "R", "S", "T", "U", "V", "W", "X", "Y", "Z" >>

BASE == Len(BASE62_ALPHABET)

Ok(v) == [exc |-> "none", val |-> v]
Raise(e) == [exc |-> e]
NotCalled == [exc |-> "not_called"]

IntValue(n) == [kind |-> "int", val |-> n]

\* isinstance(number, int): bool is a subclass of int
isinstance_int(value) == value.kind \in {"int", "bool"}

\* encoded = encoded + BASE62_ALPHABET[remainder]
RECURSIVE EncodeLoop_append(_, _)
EncodeLoop_append(n, acc) ==
    IF n > 0
    THEN EncodeLoop_append(n \div BASE,
                           acc \o <<BASE62_ALPHABET[(n % BASE) + 1]>>)
    ELSE acc

\* the while loop of encode_base62
RECURSIVE EncodeLoop(_, _)
EncodeLoop(n, acc) ==
    IF n > 0
    THEN EncodeLoop(n \div BASE, <<BASE62_ALPHABET[(n % BASE) + 1]>> \o acc)
    ELSE acc

\* without the "if number == 0" case
encode_base62_noZeroCase(value) ==
    IF ~isinstance_int(value) \/ value.val < 0
    THEN Raise("ValueError")
    ELSE Ok(EncodeLoop(value.val, <<>>))

\* without the "number < 0" test
encode_base62_noNegativeCheck(value) ==
    IF ~isinstance_int(value)
    THEN Raise("ValueError")
    ELSE IF value.val = 0
         THEN Ok(<<BASE62_ALPHABET[1]>>)
         ELSE Ok(EncodeLoop(value.val, <<>>))

encode_base62(value) ==
    IF ~isinstance_int(value) \/ value.val < 0
    THEN Raise("ValueError")
    ELSE IF value.val = 0
         THEN Ok(<<BASE62_ALPHABET[1]>>)
         ELSE Ok(EncodeLoop(value.val, <<>>))

\* the 1-based position of char
Index_oneBased(char) ==
    IF \E k \in 1..Len(BASE62_ALPHABET) : BASE62_ALPHABET[k] = char
    THEN Ok(CHOOSE k \in 1..Len(BASE62_ALPHABET) :
                /\ BASE62_ALPHABET[k] = char
                /\ \A j \in 1..(k - 1) : BASE62_ALPHABET[j] # char)
    ELSE Raise("ValueError")

\* BASE62_ALPHABET.find(char): -1 when char does not occur
Index_find(char) ==
    IF \E k \in 1..Len(BASE62_ALPHABET) : BASE62_ALPHABET[k] = char
    THEN Ok((CHOOSE k \in 1..Len(BASE62_ALPHABET) :
                /\ BASE62_ALPHABET[k] = char
                /\ \A j \in 1..(k - 1) : BASE62_ALPHABET[j] # char) - 1)
    ELSE Ok(-1)

\* BASE62_ALPHABET.index(char): the lowest 0-based position of char,
\* ValueError when char does not occur
Index(char) ==
    IF \E k \in 1..Len(BASE62_ALPHABET) : BASE62_ALPHABET[k] = char
    THEN Ok((CHOOSE k \in 1..Len(BASE62_ALPHABET) :
                /\ BASE62_ALPHABET[k] = char
                /\ \A j \in 1..(k - 1) : BASE62_ALPHABET[j] # char) - 1)
    ELSE Raise("ValueError")

RECURSIVE Pow(_, _)
Pow(b, e) == IF e = 0 THEN 1 ELSE b * Pow(b, e - 1)

\* power = length - i
Power_offByOne(length, i) == length - i

\* power = i: the first character is the least significant digit
Power_littleEndian(length, i) == i

\* power = length - (i + 1), i the 0-based position of the character
Power(length, i) == length - (i + 1)

\* the for loop of decode_base62; i is the 0-based enumerate() index
RECURSIVE DecodeLoop(_, _, _)
DecodeLoop(s, i, acc) ==
    IF i >= Len(s)
    THEN Ok(acc)
    ELSE LET index == Index(s[i + 1])
         IN  IF index.exc # "none"
             THEN Raise(index.exc)
             ELSE DecodeLoop(s, i + 1,
                             acc + index.val * Pow(BASE, Power(Len(s), i)))

decode_base62(s) == DecodeLoop(s, 0, 0)

----------------------------------------------------------------------------
(* Inputs of the codec *)

\* values around the places where the encoding gets one character longer
BigNumbers ==
    {BASE * BASE - 1, BASE * BASE, BASE * BASE + 1,
     BASE * BASE * BASE - 1, BASE * BASE * BASE}

\* Python values that are not instances of int
NonIntValues ==
    {[kind |-> "float", val |-> 125], [kind |-> "str", val |-> 125],
     [kind |-> "NoneType", val |-> 0]}

BoolValues == {[kind |-> "bool", val |-> 0], [kind |-> "bool", val |-> 1]}

NumberInputs ==
    {IntValue(n) : n \in (-MaxNegative..MaxNumber) \cup BigNumbers}
        \cup NonIntValues \cup BoolValues

\* characters of the strings tried: both ends of the digits, of the
\* lowercase and of the uppercase letters, and two outside the alphabet
StrChars == {"0", "1", "9", "a", "Z", "-", "_"}

StrInputs == UNION {[1..n -> StrChars] : n \in 0..MaxLen}

----------------------------------------------------------------------------
(* State of the site before any request *)

NoRequest == [view |-> "none"]

InitRender ==
    /\ ingredients_queryset = <<>>
    /\ shopping_list_content = NotCalled

InitShop ==
    /\ recipe_author = <<>>
    /\ recipe_name = <<>>
    /\ recipe_ingredients = {}
    /\ shopping_cart = EmptyBag
    /\ favorites = EmptyBag

\* the threads that call into api/utils.py at the same time
Threads == {"t1", "t2"}

\* a thread that has made no call
NoCall ==
    [pc |-> "idle", fn |-> "none", given |-> [none |-> 0],
     result |-> NotCalled, overlapped |-> FALSE]

\* the local variables of a call before its first statement
NewFrame ==
    [number |-> 0, encoded |-> <<>>, decoded |-> 0, i |-> 0,
     shopping_list_parts |-> <<>>, item |-> 1]

\* no request is being served and no thread has made a call
InitThreads ==
    /\ in_flight = EmptyBag
    /\ calls = [t \in Threads |-> NoCall]
    /\ arguments = [t \in Threads |-> [none |-> 0]]
    /\ locals = [t \in Threads |-> NewFrame]

InitSite ==
    /\ recipes = {}
    /\ lastId = 0
    /\ nCreated = 0
    /\ links = {}
    /\ last = NoRequest
    /\ InitShop
    /\ InitThreads
    /\ subscriptions = EmptyBag
    /\ transactions = {}

----------------------------------------------------------------------------
(* Calls of the codec *)

InitCodec ==
    /\ \/ number \in NumberInputs /\ encoded_str = <<>>
       \/ number = IntValue(0) /\ encoded_str \in StrInputs
    /\ encoded = NotCalled
    /\ decoded = NotCalled
    /\ InitSite
    /\ InitRender

\* encode_base62(number)
CallEncode ==
    /\ encoded = NotCalled
    /\ encoded' = encode_base62(number)
    /\ UNCHANGED <<number, encoded_str, decoded, nonCodecVars>>

\* decode_base62(encoded_str)
CallDecode ==
    /\ decoded = NotCalled
    /\ decoded' = decode_base62(encoded_str)
    /\ UNCHANGED <<number, encoded, encoded_str, nonCodecVars>>

\* decode_base62(encode_base62(number)): the string returned by the encoder
\* is handed to the decoder
DecodeEncoded ==
    /\ encoded.exc = "none"
    /\ encoded_str' = encoded.val
    /\ decoded' = decode_base62(encoded.val)
    /\ UNCHANGED <<number, encoded, nonCodecVars>>

\* encode_base62(decode_base62(encoded_str)): the integer returned by the
\* decoder is handed to the encoder
EncodeDecoded ==
    /\ decoded.exc = "none"
    /\ number' = IntValue(decoded.val)
    /\ encoded' = encode_base62(IntValue(decoded.val))
    /\ UNCHANGED <<encoded_str, decoded, nonCodecVars>>

NextCodec == CallEncode \/ CallDecode \/ DecodeEncoded \/ EncodeDecoded

SpecCodec == InitCodec /\ [][NextCodec]_vars

----------------------------------------------------------------------------
(* Properties of the codec *)

InAlphabet(char) == \E k \in 1..Len(BASE62_ALPHABET) : BASE62_ALPHABET[k] = char

AlphabetOnly(s) == \A i \in 1..Len(s) : InAlphabet(s[i])

DigitValue(char) ==
    (CHOOSE k \in 1..Len(BASE62_ALPHABET) : BASE62_ALPHABET[k] = char) - 1

\* sum over the positions i..Len(s) of DigitValue(s[i]) * 62^(Len(s) - i)
RECURSIVE PositionalSum(_, _)
PositionalSum(s, i) ==
    IF i > Len(s)
    THEN 0
    ELSE DigitValue(s[i]) * Pow(62, Len(s) - i) + PositionalSum(s, i + 1)

PositionalValue(s) == PositionalSum(s, 1)

Zeros(k) == [i \in 1..k |-> BASE62_ALPHABET[1]]

\* non-empty, and no leading zero character unless it is the whole string
Canonical(s) ==
    /\ Len(s) >= 1
    /\ AlphabetOnly(s)
    /\ s[1] = BASE62_ALPHABET[1] => Len(s) = 1

EncodeCalled == encoded.exc # "not_called"
DecodeCalled == decoded.exc # "not_called"

\* C1: for every non-negative integer n, encode_base62(n) returns a string
\* and decode_base62 of that string returns n
C1_RoundTrip ==
    (number.kind = "int" /\ number.val >= 0 /\ EncodeCalled) =>
        /\ encoded.exc = "none"
        /\ (DecodeCalled /\ encoded_str = encoded.val) =>
               (decoded.exc = "none" /\ decoded.val = number.val)

C1_Witness ==
    /\ number = IntValue(125)
    /\ encoded.exc = "none" /\ encoded.val = <<"2", "1">>
    /\ encoded_str = <<"2", "1">>
    /\ decoded.exc = "none" /\ decoded.val = 125

\* C2: for every integer n > 0, encode_base62(n) is the minimal-length
\* base-62 representation of n: non-empty, made of alphabet characters only,
\* not starting with the zero character, of positional value n and of the
\* length of the shortest base-62 numeral of n
C2_MinimalEncoding ==
    (number.kind = "int" /\ number.val > 0 /\ EncodeCalled) =>
        /\ encoded.exc = "none"
        /\ Len(encoded.val) >= 1
        /\ AlphabetOnly(encoded.val)
        /\ encoded.val[1] # BASE62_ALPHABET[1]
        /\ PositionalValue(encoded.val) = number.val
        /\ Pow(62, Len(encoded.val) - 1) <= number.val
        /\ number.val < Pow(62, Len(encoded.val))

C2_Witness ==
    /\ number = IntValue(3844)
    /\ encoded.exc = "none" /\ encoded.val = <<"1", "0", "0">>

\* C3: encode_base62(0) returns the one-character string made of the first
\* character of the alphabet
C3_EncodeZero ==
    (number = IntValue(0) /\ EncodeCalled) =>
        (encoded.exc = "none" /\ encoded.val = <<"0">>)

C3_Witness ==
    /\ number = IntValue(0)
    /\ encoded_str = <<>>
    /\ encoded.exc = "none" /\ encoded.val = <<"0">>
    /\ ~DecodeCalled

\* C4: for every alphabet-only string s, decode_base62(s) returns the
\* base-62 positional value of s, most significant digit first
C4_DecodePositional ==
    (DecodeCalled /\ AlphabetOnly(encoded_str)) =>
        (decoded.exc = "none" /\ decoded.val = PositionalValue(encoded_str))

C4_Witness ==
    /\ encoded_str = <<"1", "a", "Z">>
    /\ decoded.exc = "none" /\ decoded.val = 3844 + 10 * 62 + 61

\* C5: for every alphabet-only string s and every k >= 0, decode_base62 of
\* s prefixed with k zero characters returns the integer decode_base62(s)
\* returned
C5_LeadingZeros ==
    (DecodeCalled /\ AlphabetOnly(encoded_str)) =>
        /\ decoded.exc = "none"
        /\ \A k \in 0..MaxPad :
              LET padded == decode_base62(Zeros(k) \o encoded_str)
              IN  padded.exc = "none" /\ padded.val = decoded.val

C5_Witness ==
    /\ encoded_str = <<"0", "1", "Z">>
    /\ decoded.exc = "none" /\ decoded.val = 62 + 61

\* C6: for every canonical string s (non-empty, alphabet-only, no leading
\* zero character unless s is the single zero character),
\* encode_base62(decode_base62(s)) returns s; and no other non-negative
\* integer encodes to the string an integer encodes to
C6_Bijection ==
    /\ (/\ DecodeCalled /\ decoded.exc = "none" /\ Canonical(encoded_str)
        /\ EncodeCalled /\ number = IntValue(decoded.val)) =>
           (encoded.exc = "none" /\ encoded.val = encoded_str)
    /\ (number.kind = "int" /\ encoded.exc = "none") =>
           \A m \in (0..MaxNumber) \cup BigNumbers :
               m # number.val =>
                   LET other == encode_base62(IntValue(m))
                   IN  other.exc = "none" /\ other.val # encoded.val

C6_Witness ==
    /\ encoded_str = <<"a", "0">>
    /\ decoded.exc = "none" /\ decoded.val = 620
    /\ number = IntValue(620)
    /\ encoded.exc = "none" /\ encoded.val = <<"a", "0">>

\* C7: encode_base62 raises ValueError and returns no string whenever its
\* argument is a negative integer or is not an integer
C7_EncodeInvalidInput ==
    (/\ EncodeCalled
     /\ \/ number.kind = "int" /\ number.val < 0
        \/ number.kind \notin {"int", "bool"}) =>
        (encoded.exc = "ValueError" /\ "val" \notin DOMAIN encoded)

C7_Witness ==
    /\ number = IntValue(-1)
    /\ encoded.exc = "ValueError"

\* C8: decode_base62 raises ValueError and returns no integer whenever the
\* string holds a character outside the alphabet, at whatever position
C8_DecodeInvalidCharacter ==
    (DecodeCalled /\ ~AlphabetOnly(encoded_str)) =>
        (decoded.exc = "ValueError" /\ "val" \notin DOMAIN decoded)

C8_Witness ==
    /\ encoded_str = <<"1", "a", "-">>
    /\ decoded.exc = "ValueError"

----------------------------------------------------------------------------
(* api/views.py, foodgram_backend/urls.py: the short-link views *)

\* gaps the Recipe primary-key sequence may leave between two rows: the
\* database hands out increasing keys and never reuses one
IdSteps == {1, 62}

\* characters of a hand-typed short id
PathChars == {"0", "1", "-"}

\* path('s/<str:short_id>/'): the str converter matches a non-empty
\* segment without "/"
MatchesShortLinkPath(segment) ==
    /\ Len(segment) >= 1
    /\ \A i \in 1..Len(segment) : segment[i] # "/"

PathInputs == UNION {[1..n -> PathChars] : n \in 0..MaxPathLen}

\* get_object_or_404(Recipe, pk=pk) and self.get_object()
get_object_or_404(pk) ==
    IF pk \in recipes THEN Ok(pk) ELSE Raise("Http404")

\* HTTP response of an exception that leaves a view: Http404 is answered
\* 404, any other exception is a server error
ExceptionResponse(exc) ==
    IF exc = "Http404" THEN [status |-> 404] ELSE [status |-> 500]

\* without the try/except around decode_base62
RecipeShortLinkRedirectView_get_noExcept(kwargs) ==
    IF "short_id" \notin DOMAIN kwargs
    THEN ExceptionResponse("Http404")
    ELSE LET recipe_id == decode_base62(kwargs.short_id)
         IN  IF recipe_id.exc # "none"
             THEN ExceptionResponse(recipe_id.exc)
             ELSE LET recipe == get_object_or_404(recipe_id.val)
                  IN  IF recipe.exc # "none"
                      THEN ExceptionResponse(recipe.exc)
                      ELSE [status |-> 302, location |-> recipe.val]

\* RecipeShortLinkRedirectView.get
RecipeShortLinkRedirectView_get(kwargs) ==
    IF "short_id" \notin DOMAIN kwargs
    THEN ExceptionResponse("Http404")
    ELSE LET recipe_id == decode_base62(kwargs.short_id)
         IN  IF recipe_id.exc = "ValueError"
             THEN ExceptionResponse("Http404")
             ELSE IF recipe_id.exc # "none"
             THEN ExceptionResponse(recipe_id.exc)
             ELSE LET recipe == get_object_or_404(recipe_id.val)
                  IN  IF recipe.exc # "none"
                      THEN ExceptionResponse(recipe.exc)
                      ELSE [status |-> 302, location |-> recipe.val]

\* RecipeViewSet.get_short_link
get_short_link(pk) ==
    LET recipe == get_object_or_404(pk)
    IN  IF recipe.exc # "none"
        THEN ExceptionResponse(recipe.exc)
        ELSE LET short_id == encode_base62(IntValue(recipe.val))
             IN  IF short_id.exc # "none"
                 THEN ExceptionResponse(short_id.exc)
                 ELSE [status |-> 200, short_id |-> short_id.val]

\* POST /api/recipes/: RecipeWriteSerializer.create stores a Recipe row
\* under a fresh primary key
CreateRecipe(step) ==
    /\ nCreated < MaxRecipes
    /\ LET id == lastId + step
       IN  /\ recipes' = recipes \cup {id}
           /\ lastId' = id
           /\ last' = [view |-> "create",
                       response |-> [status |-> 201, id |-> id]]
    /\ nCreated' = nCreated + 1
    /\ UNCHANGED <<links, nonSiteVars>>

\* the rows of a (user, recipe) table left when recipe pk is deleted:
\* on_delete=models.CASCADE
CascadeRecipe(table, pk) ==
    [row \in {r \in DOMAIN table : r.recipe # pk} |-> table[row]]

\* DELETE /api/recipes/<pk>/ of a stored recipe; the rows that refer to the
\* recipe are deleted with it
DestroyRecipe(pk) ==
    /\ pk \in recipes
    /\ recipes' = recipes \ {pk}
    /\ recipe_author' =
           [r \in DOMAIN recipe_author \ {pk} |-> recipe_author[r]]
    /\ recipe_name' = [r \in DOMAIN recipe_name \ {pk} |-> recipe_name[r]]
    /\ recipe_ingredients' = {ri \in recipe_ingredients : ri.recipe # pk}
    /\ shopping_cart' = CascadeRecipe(shopping_cart, pk)
    /\ favorites' = CascadeRecipe(favorites, pk)
    /\ last' = [view |-> "destroy", pk |-> pk, response |-> [status |-> 204]]
    /\ UNCHANGED <<lastId, nCreated, links, codecVars, renderVars,
                   threadVars, subscriptions, transactions>>

\* GET /api/recipes/<pk>/get-link/; the client keeps the link it is given
GetShortLink(pk) ==
    LET response == get_short_link(pk)
    IN  /\ last' = [view |-> "get_short_link", pk |-> pk,
                    response |-> response]
        /\ links' = IF response.status = 200
                    THEN links \cup {[recipe |-> pk,
                                      short_id |-> response.short_id]}
                    ELSE links
        /\ UNCHANGED <<recipes, lastId, nCreated, nonSiteVars>>

\* GET /s/<short_id>/
ShortLinkRedirect(segment) ==
    /\ MatchesShortLinkPath(segment)
    /\ last' = [view |-> "short_link_redirect", short_id |-> segment,
                response |->
                    RecipeShortLinkRedirectView_get([short_id |-> segment])]
    /\ UNCHANGED <<recipes, lastId, nCreated, links, nonSiteVars>>

Init ==
    /\ number = IntValue(0)
    /\ encoded = NotCalled
    /\ encoded_str = <<>>
    /\ decoded = NotCalled
    /\ InitSite
    /\ InitRender

Next ==
    \/ \E step \in IdSteps : CreateRecipe(step)
    \/ \E pk \in recipes : DestroyRecipe(pk)
    \/ \E pk \in recipes \cup {l.recipe : l \in links} \cup {lastId + 1} :
          GetShortLink(pk)
    \/ \E segment \in PathInputs \cup {l.short_id : l \in links} :
          ShortLinkRedirect(segment)

Spec == Init /\ [][Next]_vars

----------------------------------------------------------------------------
(* Properties of the short-link views *)

\* C9: GET /s/<short_id>/ is answered 404 when short_id holds a character
\* outside the alphabet or when no recipe has the decoded identifier, and is
\* otherwise a redirect to the recipe whose identifier is the decoded value;
\* it is never answered with a server error
C9_ShortLinkResponse ==
    last.view = "short_link_redirect" =>
        /\ last.response.status # 500
        /\ ~AlphabetOnly(last.short_id) => last.response.status = 404
        /\ (AlphabetOnly(last.short_id)
              /\ PositionalValue(last.short_id) \notin recipes) =>
                 last.response.status = 404
        /\ (AlphabetOnly(last.short_id)
              /\ PositionalValue(last.short_id) \in recipes) =>
                 /\ last.response.status = 302
                 /\ last.response.location = PositionalValue(last.short_id)

C9_Witness ==
    /\ 1 \in recipes
    /\ last.view = "short_link_redirect"
    /\ last.short_id = <<"1", "-">>
    /\ last.response.status = 404

\* C10: get_short_link answers every stored recipe r with a short id, and
\* following that short id while r is stored redirects to r
C10_ShortLinkResolves ==
    /\ (last.view = "get_short_link" /\ last.pk \in recipes) =>
           last.response.status = 200
    /\ \A l \in links :
           (/\ last.view = "short_link_redirect"
            /\ last.short_id = l.short_id
            /\ l.recipe \in recipes) =>
               /\ last.response.status = 302
               /\ last.response.location = l.recipe

C10_Witness ==
    /\ {62, 125} \subseteq recipes
    /\ [recipe |-> 125, short_id |-> <<"2", "1">>] \in links
    /\ last.view = "short_link_redirect"
    /\ last.short_id = <<"2", "1">>
    /\ last.response.status = 302
    /\ last.response.location = 125

----------------------------------------------------------------------------
(* api/utils.py: generate_shopping_list_content *)

(* The text returned is modelled as the sequence of the pieces it is made     *)
(* of. The Cyrillic literals of the source are written in Latin letters and   *)
(* its em dash as "--": HEADER is 'Список покупок:\n', EMPTY_LIST is          *)
(* 'Ваш список пуст.', DEFAULT_NAME is 'Без названия', DEFAULT_UNIT is 'шт.'. *)
HEADER == "Spisok pokupok:\n"
EMPTY_LIST == "Vash spisok pust."
DEFAULT_NAME == "Bez nazvaniya"
DEFAULT_UNIT == "sht."

StrValue(text) == [kind |-> "str", text |-> text]
NoneValue == [kind |-> "NoneType", val |-> 0]

\* the text an f-string writes for a value
Format(value) ==
    CASE value.kind = "str" -> value.text
      [] value.kind = "int" -> ToString(value.val)
      [] value.kind = "bool" -> IF value.val = 1 THEN "True" ELSE "False"
      [] value.kind = "NoneType" -> "None"

\* item[key]: KeyError when the key is missing
dict_get_subscript(item, key, default) ==
    IF key \in DOMAIN item THEN Ok(item[key]) ELSE Raise("KeyError")

\* item.get(key, default)
dict_get(item, key, default) ==
    IF key \in DOMAIN item THEN Ok(item[key]) ELSE Ok(default)

\* f'\n- {name} ({unit}) -- {total_amount}'
Line(name, unit, total_amount) ==
    <<"\n- ", Format(name), " (", Format(unit), ") -- ",
      Format(total_amount)>>

\* shopping_list_parts.insert(1, line): the newest line goes first
RECURSIVE RenderLoop_insertFirst(_, _, _)
RenderLoop_insertFirst(queryset, i, parts) ==
    IF i > Len(queryset)
    THEN Ok(parts)
    ELSE LET item == queryset[i]
             name == dict_get(item, "ingredient__name",
                              StrValue(DEFAULT_NAME))
             unit == dict_get(item, "ingredient__measurement_unit",
                              StrValue(DEFAULT_UNIT))
             total_amount == dict_get(item, "total_amount", IntValue(0))
         IN  IF name.exc # "none" THEN Raise(name.exc)
             ELSE IF unit.exc # "none" THEN Raise(unit.exc)
             ELSE IF total_amount.exc # "none" THEN Raise(total_amount.exc)
             ELSE RenderLoop_insertFirst(queryset, i + 1,
                      <<Head(parts)>>
                          \o <<Line(name.val, unit.val, total_amount.val)>>
                          \o Tail(parts))

\* the for loop of generate_shopping_list_content
RECURSIVE RenderLoop(_, _, _)
RenderLoop(queryset, i, parts) ==
    IF i > Len(queryset)
    THEN Ok(parts)
    ELSE LET item == queryset[i]
             name == dict_get(item, "ingredient__name",
                              StrValue(DEFAULT_NAME))
             unit == dict_get(item, "ingredient__measurement_unit",
                              StrValue(DEFAULT_UNIT))
             total_amount == dict_get(item, "total_amount", IntValue(0))
         IN  IF name.exc # "none" THEN Raise(name.exc)
             ELSE IF unit.exc # "none" THEN Raise(unit.exc)
             ELSE IF total_amount.exc # "none" THEN Raise(total_amount.exc)
             ELSE RenderLoop(queryset, i + 1,
                      Append(parts,
                             Line(name.val, unit.val, total_amount.val)))

\* "".join(parts)
RECURSIVE JoinFrom(_, _)
JoinFrom(parts, i) ==
    IF i > Len(parts) THEN <<>> ELSE parts[i] \o JoinFrom(parts, i + 1)

Join(parts) == JoinFrom(parts, 1)

\* return "".join(shopping_list_parts), or the exception the loop raised
Return(parts) ==
    IF parts.exc # "none" THEN Raise(parts.exc) ELSE Ok(Join(parts.val))

\* without the "if not ingredients_queryset" case
generate_shopping_list_content_noEmptyCase(queryset) ==
    CHOOSE content \in {Return(parts) :
                           parts \in {RenderLoop(queryset, 1, <<(<<HEADER>>)>>)}} :
        TRUE

generate_shopping_list_content(queryset) ==
    IF Len(queryset) = 0
    THEN Ok(Join(<<(<<HEADER>>), (<<EMPTY_LIST>>)>>))
    ELSE CHOOSE content \in {Return(parts) :
                           parts \in {RenderLoop(queryset, 1, <<(<<HEADER>>)>>)}} :
             TRUE

----------------------------------------------------------------------------
(* Calls of generate_shopping_list_content *)

\* values a row may hold under each key; a key may also be missing
RowValues(key) ==
    CASE key = "ingredient__name" ->
             {StrValue("Flour"), StrValue("Sugar"), NoneValue}
      [] key = "ingredient__measurement_unit" -> {StrValue("g")}
      [] key = "total_amount" -> {IntValue(200), IntValue(500)}

RowKeys == {"ingredient__name", "ingredient__measurement_unit",
            "total_amount"}

RowInputs ==
    UNION {{item \in [keys -> UNION {RowValues(k) : k \in RowKeys}] :
               \A k \in keys : item[k] \in RowValues(k)} :
           keys \in SUBSET RowKeys}

QuerysetInputs == UNION {[1..n -> RowInputs] : n \in 0..MaxRows}

InitRenderCalls ==
    /\ ingredients_queryset \in QuerysetInputs
    /\ shopping_list_content = NotCalled
    /\ number = IntValue(0)
    /\ encoded = NotCalled
    /\ encoded_str = <<>>
    /\ decoded = NotCalled
    /\ InitSite

\* generate_shopping_list_content(ingredients_queryset)
CallRender ==
    /\ shopping_list_content = NotCalled
    /\ shopping_list_content' =
           generate_shopping_list_content(ingredients_queryset)
    /\ UNCHANGED <<ingredients_queryset, codecVars, siteVars, shopVars,
                   threadVars, subscriptions, transactions>>

NextRender == CallRender

SpecRender == InitRenderCalls /\ [][NextRender]_vars

----------------------------------------------------------------------------
(* Properties of generate_shopping_list_content *)

RenderCalled == shopping_list_content.exc # "not_called"

\* the six pieces of the line of the i-th row in the text
LineOf(text, i) == SubSeq(text, 2 + 6 * (i - 1), 1 + 6 * i)

HasValue(item, key) == key \in DOMAIN item

\* C15: generate_shopping_list_content of an empty sequence returns exactly
\* the header followed by the empty-list placeholder, with no per-row line
C15_RenderEmpty ==
    (RenderCalled /\ ingredients_queryset = <<>>) =>
        /\ shopping_list_content.exc = "none"
        /\ shopping_list_content.val = <<HEADER, EMPTY_LIST>>

C15_Witness ==
    /\ ingredients_queryset = <<>>
    /\ shopping_list_content.exc = "none"
    /\ Len(shopping_list_content.val) = 2

\* C16: for a non-empty sequence of rows the text is the header followed by
\* exactly one line "- name (unit) -- amount" per row, the i-th line written
\* from the i-th row: rows are not re-sorted, merged or dropped
C16_RenderRows ==
    (RenderCalled /\ Len(ingredients_queryset) > 0) =>
        /\ shopping_list_content.exc = "none"
        /\ Len(shopping_list_content.val) = 1 + 6 * Len(ingredients_queryset)
        /\ shopping_list_content.val[1] = HEADER
        /\ \A i \in 1..Len(ingredients_queryset) :
              LET item == ingredients_queryset[i]
                  line == LineOf(shopping_list_content.val, i)
              IN  /\ line[1] = "\n- " /\ line[3] = " (" /\ line[5] = ") -- "
                  /\ HasValue(item, "ingredient__name") =>
                         line[2] = Format(item["ingredient__name"])
                  /\ HasValue(item, "ingredient__measurement_unit") =>
                         line[4] = Format(item["ingredient__measurement_unit"])
                  /\ HasValue(item, "total_amount") =>
                         line[6] = Format(item["total_amount"])

C16_Witness ==
    /\ ingredients_queryset =
           <<[ingredient__name |-> StrValue("Sugar"),
              ingredient__measurement_unit |-> StrValue("g"),
              total_amount |-> IntValue(200)],
             [ingredient__name |-> StrValue("Flour"),
              ingredient__measurement_unit |-> StrValue("g"),
              total_amount |-> IntValue(500)]>>
    /\ shopping_list_content.exc = "none"
    /\ shopping_list_content.val =
           <<HEADER, "\n- ", "Sugar", " (", "g", ") -- ", "200",
                     "\n- ", "Flour", " (", "g", ") -- ", "500">>

\* C17: generate_shopping_list_content never fails: for rows in which any
\* subset of the three keys is missing it returns a text in which a missing
\* name reads DEFAULT_NAME, a missing unit DEFAULT_UNIT and a missing amount 0
C17_RenderDefaults ==
    RenderCalled =>
        /\ shopping_list_content.exc = "none"
        /\ \A i \in 1..Len(ingredients_queryset) :
              LET item == ingredients_queryset[i]
                  line == LineOf(shopping_list_content.val, i)
              IN  /\ ~HasValue(item, "ingredient__name") =>
                         line[2] = "Bez nazvaniya"
                  /\ ~HasValue(item, "ingredient__measurement_unit") =>
                         line[4] = "sht."
                  /\ ~HasValue(item, "total_amount") => line[6] = "0"

C17_Witness ==
    /\ Len(ingredients_queryset) = 2
    /\ DOMAIN ingredients_queryset[1] = {}
    /\ DOMAIN ingredients_queryset[2] = {"ingredient__measurement_unit"}
    /\ shopping_list_content.exc = "none"
    /\ shopping_list_content.val =
           <<HEADER, "\n- ", "Bez nazvaniya", " (", "sht.", ") -- ", "0",
                     "\n- ", "Bez nazvaniya", " (", "g", ") -- ", "0">>

----------------------------------------------------------------------------
(* recipes/models.py, api/serializers.py, api/views.py: recipes and the     *)
(* shopping cart                                                            *)

Users == {"u1", "u2"}
AnonymousUser == "AnonymousUser"
is_authenticated(user) == user \in Users

\* users who publish recipes in the behaviours explored
Authors == {"u1"}

\* the Ingredient rows, by primary key; (name, measurement_unit) is unique
Ingredient ==
    <<[name |-> "Salt", measurement_unit |-> "g"],
      [name |-> "Flour", measurement_unit |-> "g"],
      [name |-> "Salt", measurement_unit |-> "pinch"]>>

\* the collation of the ingredient names: position in ascending order
NameRank(name) == CASE name = "Flour" -> 1 [] name = "Salt" -> 2

MIN_AMOUNT_VALUE == 1

Item(id, amount) == [id |-> id, amount |-> amount]

\* request bodies sent to the recipe API: the "ingredients" list, or a body
\* without that field
RecipeDataInputs ==
    {[ingredients |-> list] :
        list \in {<<>>,
                  <<Item(1, 2)>>,
                  <<Item(1, 1), Item(2, 2)>>,
                  <<Item(3, 1), Item(1, 1)>>,
                  <<Item(2, 1), Item(2, 2)>>,
                  <<Item(2, 0)>>,
                  <<Item(4, 1)>>}}
        \cup {[name |-> "recipe"]}

\* the name among the other fields of a request body; a body that does not
\* spell it out carries the name "recipe"
NameOf(data) == IF "name" \in DOMAIN data THEN data.name ELSE "recipe"

\* IngredientAmountWriteSerializer: id is the key of a stored Ingredient and
\* amount is at least min_value=1
IngredientAmountWriteSerializer_is_valid(item) ==
    /\ item.id \in 1..Len(Ingredient)
    /\ item.amount >= 1

\* validate_ingredients without the test for repeated ingredients
validate_ingredients_noDuplicateTest(ingredients) ==
    IF Len(ingredients) = 0
    THEN Raise("ValidationError")
    ELSE IF \E i \in 1..Len(ingredients) :
                ingredients[i].amount < MIN_AMOUNT_VALUE
    THEN Raise("ValidationError")
    ELSE Ok(ingredients)

\* RecipeWriteSerializer.validate_ingredients
validate_ingredients(ingredients) ==
    IF Len(ingredients) = 0
    THEN Raise("ValidationError")
    ELSE IF Cardinality({ingredients[i].id : i \in 1..Len(ingredients)})
                # Len(ingredients)
    THEN Raise("ValidationError")
    ELSE IF \E i \in 1..Len(ingredients) :
                ingredients[i].amount < MIN_AMOUNT_VALUE
    THEN Raise("ValidationError")
    ELSE Ok(ingredients)

\* a serializer that lets every amount through
run_validation_noAmountCheck(data) ==
    IF "ingredients" \notin DOMAIN data
    THEN Raise("ValidationError")
    ELSE IF \E i \in 1..Len(data.ingredients) :
                data.ingredients[i].id \notin 1..Len(Ingredient)
    THEN Raise("ValidationError")
    ELSE IF Len(data.ingredients) = 0
    THEN Raise("ValidationError")
    ELSE IF Cardinality({data.ingredients[i].id :
                            i \in 1..Len(data.ingredients)})
                # Len(data.ingredients)
    THEN Raise("ValidationError")
    ELSE Ok(data.ingredients)

\* serializer.is_valid(raise_exception=True) of RecipeWriteSerializer: the
\* fields, then validate_ingredients, then validate. A body without
\* "ingredients" is refused by required=True on create and by validate on
\* update. The other fields of the recipe are taken to be valid.
run_validation(data) ==
    IF "ingredients" \notin DOMAIN data
    THEN Raise("ValidationError")
    ELSE IF \E i \in 1..Len(data.ingredients) :
                ~IngredientAmountWriteSerializer_is_valid(data.ingredients[i])
    THEN Raise("ValidationError")
    ELSE validate_ingredients(data.ingredients)

\* RecipeWriteSerializer._create_ingredients
_create_ingredients(recipe, ingredients_data) ==
    {[recipe |-> recipe,
      ingredient |-> ingredients_data[i].id,
      amount |-> ingredients_data[i].amount] :
        i \in 1..Len(ingredients_data)}

\* POST /api/recipes/: IsAuthorOrReadOnly.has_permission, validation, then
\* RecipeWriteSerializer.create in one transaction
PostRecipe(user, data) ==
    /\ nCreated < MaxCartRecipes
    /\ LET validated == run_validation(data)
           id == lastId + 1
       IN  IF ~is_authenticated(user)
           THEN /\ last' = [view |-> "recipe_create", user |-> user, data |-> data,
                            response |-> [status |-> 401]]
                /\ UNCHANGED <<recipes, lastId, nCreated, recipe_author, recipe_name,
                               recipe_ingredients>>
           ELSE IF validated.exc # "none"
           THEN /\ last' = [view |-> "recipe_create", user |-> user, data |-> data,
                            response |-> [status |-> 400]]
                /\ UNCHANGED <<recipes, lastId, nCreated, recipe_author, recipe_name,
                               recipe_ingredients>>
           ELSE /\ recipes' = recipes \cup {id}
                /\ lastId' = id
                /\ nCreated' = nCreated + 1
                /\ recipe_author' =
                       [r \in DOMAIN recipe_author \cup {id} |->
                           IF r = id THEN user ELSE recipe_author[r]]
                /\ recipe_name' =
                       [r \in DOMAIN recipe_name \cup {id} |->
                           IF r = id THEN NameOf(data) ELSE recipe_name[r]]
                /\ recipe_ingredients' =
                       recipe_ingredients
                           \cup _create_ingredients(id, validated.val)
                /\ last' = [view |-> "recipe_create", user |-> user, data |-> data,
                            response |-> [status |-> 201, id |-> id]]
    /\ UNCHANGED <<links, shopping_cart, favorites, codecVars, renderVars,
                   threadVars, subscriptions, transactions>>

\* rest_framework.permissions.SAFE_METHODS
SAFE_METHODS == {"GET", "HEAD", "OPTIONS"}

\* IsAuthorOrReadOnly.has_permission
has_permission(method, user) ==
    method \in SAFE_METHODS \/ is_authenticated(user)

\* a permission that lets every authenticated user write
has_object_permission_anyUser(method, user, obj) ==
    method \in SAFE_METHODS \/ is_authenticated(user)

\* IsAuthorOrReadOnly.has_object_permission
has_object_permission(method, user, obj) ==
    method \in SAFE_METHODS \/ recipe_author[obj] = user

\* the status with which a request for the recipe pk is refused before its
\* handler runs, 0 when it is let through: check_permissions, get_object,
\* then check_object_permissions
Refusal(method, user, pk) ==
    IF ~has_permission(method, user) THEN 401
    ELSE IF pk \notin recipes THEN 404
    ELSE IF ~has_object_permission(method, user, pk) THEN 403
    ELSE 0

\* PUT or PATCH /api/recipes/<pk>/: has_permission, get_object,
\* has_object_permission, validation, then RecipeWriteSerializer.update in
\* one transaction
UpdateRecipe(user, pk, data) ==
    /\ LET validated == run_validation(data)
           refused ==
               IF Refusal("PATCH", user, pk) # 0
               THEN Refusal("PATCH", user, pk)
               ELSE IF validated.exc # "none" THEN 400
               ELSE 0
       IN  IF refused # 0
           THEN /\ last' = [view |-> "recipe_update", user |-> user, data |-> data,
                            pk |-> pk, response |-> [status |-> refused]]
                /\ UNCHANGED <<recipe_name, recipe_ingredients>>
           ELSE /\ recipe_name' = [recipe_name EXCEPT ![pk] = NameOf(data)]
                /\ recipe_ingredients' =
                       {ri \in recipe_ingredients : ri.recipe # pk}
                           \cup _create_ingredients(pk, validated.val)
                /\ last' = [view |-> "recipe_update", user |-> user, data |-> data,
                            pk |-> pk, response |-> [status |-> 200]]
    /\ UNCHANGED <<recipes, lastId, nCreated, links, recipe_author,
                   shopping_cart, favorites, codecVars, renderVars, threadVars,
                   subscriptions, transactions>>

----------------------------------------------------------------------------
(* The Favorite and ShoppingCart tables *)

Relation(user, recipe) == [user |-> user, recipe |-> recipe]

\* model.objects.filter(user=user, recipe=recipe).exists()
relation_exists(table, user, recipe) == BagIn(Relation(user, recipe), table)

\* an INSERT into a table without the unique constraint
objects_create_noConstraint(table, user, recipe) ==
    Ok(table (+) SetToBag({Relation(user, recipe)}))

\* model.objects.create(user=user, recipe=recipe): the INSERT is refused
\* by the UniqueConstraint on (user, recipe) and by the foreign key
objects_create(table, user, recipe) ==
    IF recipe \notin recipes \/ BagIn(Relation(user, recipe), table)
    THEN Raise("IntegrityError")
    ELSE Ok(table (+) SetToBag({Relation(user, recipe)}))

\* model.objects.filter(user=user).delete(): every record of the user
objects_delete_allOfUser(table, user, recipe) ==
    [row \in {other \in DOMAIN table : other.user # user} |-> table[row]]

\* model.objects.filter(user=user, recipe=recipe).delete()
objects_delete(table, user, recipe) ==
    [row \in DOMAIN table \ {Relation(user, recipe)} |-> table[row]]

\* a handler that answers a repeated POST with 201 and a DELETE of a missing
\* record with 204
finish_relation_idempotent(method, exists, table, user, recipe) ==
    IF method = "POST"
    THEN IF exists
         THEN [response |-> [status |-> 201, id |-> recipe], table |-> table]
         ELSE [response |-> [status |-> 201, id |-> recipe],
               table |-> table (+) SetToBag({Relation(user, recipe)})]
    ELSE [response |-> [status |-> 204],
          table |-> objects_delete(table, user, recipe)]

\* the part of _manage_user_recipe_relation after relation_exists is read:
\* the response and the table it leaves
finish_relation(method, exists, table, user, recipe) ==
    IF method = "POST"
    THEN IF exists
         THEN [response |-> [status |-> 400], table |-> table]
         ELSE LET created == objects_create(table, user, recipe)
              IN  IF created.exc # "none"
                  THEN [response |-> ExceptionResponse(created.exc),
                        table |-> table]
                  ELSE [response |-> [status |-> 201, id |-> recipe],
                        table |-> created.val]
    ELSE IF ~exists
         THEN [response |-> [status |-> 400], table |-> table]
         ELSE [response |-> [status |-> 204],
               table |-> objects_delete(table, user, recipe)]

\* RecipeViewSet._manage_user_recipe_relation served without another
\* request in between
_manage_user_recipe_relation(method, user, pk, table) ==
    IF ~is_authenticated(user)
    THEN [response |-> [status |-> 401], table |-> table]
    ELSE IF pk \notin recipes
    THEN [response |-> ExceptionResponse("Http404"), table |-> table]
    ELSE finish_relation(method, relation_exists(table, user, pk),
                         table, user, pk)

\* POST or DELETE /api/recipes/<pk>/shopping_cart/
ShoppingCartRequest(method, user, pk) ==
    LET done == _manage_user_recipe_relation(method, user, pk, shopping_cart)
    IN  /\ shopping_cart' = done.table
        /\ last' = [view |-> "shopping_cart", method |-> method,
                    user |-> user, pk |-> pk, response |-> done.response]
        /\ UNCHANGED <<recipes, lastId, nCreated, links, recipe_author, recipe_name,
                       recipe_ingredients, favorites, codecVars, renderVars, threadVars,
                       subscriptions, transactions>>

----------------------------------------------------------------------------
(* api/views.py: download_shopping_cart *)

\* filter(recipe__in_shopping_cart__isnull=False): the carts of every user
CartJoin_anyUser(user) ==
    [ri \in recipe_ingredients |->
        CopiesIn(Relation("u1", ri.recipe), shopping_cart)
            + CopiesIn(Relation("u2", ri.recipe), shopping_cart)]

\* RecipeIngredient.objects.filter(recipe__in_shopping_cart__user=user):
\* the join yields a RecipeIngredient row once per ShoppingCart row of the
\* user for its recipe
CartJoin(user) ==
    [ri \in recipe_ingredients |->
        CopiesIn(Relation(user, ri.recipe), shopping_cart)]

\* .values('ingredient__name', 'ingredient__measurement_unit'): the key a
\* joined row is grouped under
GroupKey(ri) ==
    <<Ingredient[ri.ingredient].name,
      Ingredient[ri.ingredient].measurement_unit>>

\* Max('amount')
RECURSIVE Sum_max(_, _)
Sum_max(rows, copies) ==
    IF rows = {}
    THEN 0
    ELSE LET ri == CHOOSE r \in rows : TRUE
             rest == Sum_max(rows \ {ri}, copies)
         IN  IF ri.amount > rest THEN ri.amount ELSE rest

\* Sum('amount') over joined rows
RECURSIVE Sum(_, _)
Sum(rows, copies) ==
    IF rows = {}
    THEN 0
    ELSE LET ri == CHOOSE r \in rows : TRUE
         IN  ri.amount * copies[ri] + Sum(rows \ {ri}, copies)

\* the rows the filter keeps: those joined with at least one cart row
Joined(copies) == {ri \in DOMAIN copies : copies[ri] > 0}

\* the joined rows grouped under one key
Group(joined, key) == {ri \in joined : GroupKey(ri) = key}

\* the row of one group: its key and the sum of its amounts
GroupRow(key, joined, copies) ==
    {[ingredient__name |-> StrValue(key[1]),
      ingredient__measurement_unit |-> StrValue(key[2]),
      total_amount |-> IntValue(Sum(group, copies))] :
        group \in {Group(joined, key)}}

\* .values(...).annotate(total_amount=Sum('amount')): one row per group;
\* the join and the kept rows are computed once
Annotate(user) ==
    UNION {UNION {UNION {GroupRow(GroupKey(ri), joined, copies) :
                            ri \in joined} :
                     joined \in {Joined(copies)}} :
              copies \in {CartJoin(user)}}

\* the rows in any order
RECURSIVE order_by_nothing(_)
order_by_nothing(rows) ==
    IF rows = {}
    THEN {<<>>}
    ELSE UNION {UNION {{<<first>> \o rest : rest \in order_by_nothing(others)} :
                       others \in {rows \ {first}}} :
                first \in rows}

\* .order_by('ingredient__name'): the orders the database may return, a row
\* of the least name first and rows of equal name in either order
RECURSIVE order_by_name(_)
order_by_name(rows) ==
    IF rows = {}
    THEN {<<>>}
    ELSE UNION {UNION {{<<first>> \o rest : rest \in order_by_name(others)} :
                       others \in {rows \ {first}}} :
                first \in {row \in rows :
                    \A other \in rows :
                        NameRank(row.ingredient__name.text)
                            <= NameRank(other.ingredient__name.text)}}

\* the querysets ingredients_summary may evaluate to
ingredients_summary(user) ==
    UNION {order_by_name(rows) : rows \in {Annotate(user)}}

\* GET /api/recipes/download_shopping_cart/
DownloadShoppingCart(user) ==
    /\ IF ~is_authenticated(user)
       THEN last' = [view |-> "download_shopping_cart", user |-> user,
                     response |-> [status |-> 401]]
       ELSE \E summary \in ingredients_summary(user) :
               LET content == generate_shopping_list_content(summary)
               IN  last' = [view |-> "download_shopping_cart",
                            user |-> user,
                            summary |-> summary,
                            response |->
                                IF content.exc # "none"
                                THEN ExceptionResponse(content.exc)
                                ELSE [status |-> 200,
                                      content |-> content.val]]
    /\ UNCHANGED <<recipes, lastId, nCreated, links, shopVars,
                   codecVars, renderVars, threadVars, subscriptions, transactions>>

\* the request bodies the authors send while the carts are exported: the
\* lists that are stored, and one with an amount below the minimum
CartDataInputs ==
    {[ingredients |-> list] :
        list \in {<<Item(1, 2)>>,
                  <<Item(1, 1), Item(2, 2)>>,
                  <<Item(3, 1), Item(1, 1)>>,
                  <<Item(2, 0)>>}}

NextCart ==
    \/ \E user \in Authors, data \in CartDataInputs :
          PostRecipe(user, data)
    \/ \E user \in Authors, pk \in recipes, data \in CartDataInputs :
          UpdateRecipe(user, pk, data)
    \/ \E pk \in recipes : DestroyRecipe(pk)
    \/ \E method \in {"POST", "DELETE"}, user \in Users,
          pk \in 1..(lastId + 1) :
          ShoppingCartRequest(method, user, pk)
    \/ \E user \in Users : DownloadShoppingCart(user)

SpecCart == Init /\ [][NextCart]_vars

----------------------------------------------------------------------------
(* Properties of the shopping-list export *)

Exported ==
    /\ last.view = "download_shopping_cart"
    /\ last.response.status = 200

\* the stored recipes that are in the cart of the user
CartRecipes(user) ==
    {r \in recipes : BagIn(Relation(user, r), shopping_cart)}

\* the RecipeIngredient rows of the cart recipes of the user for the
\* ingredient of that name and unit
CartRows(user, name, unit) ==
    {ri \in recipe_ingredients :
        /\ ri.recipe \in CartRecipes(user)
        /\ Ingredient[ri.ingredient].name = name
        /\ Ingredient[ri.ingredient].measurement_unit = unit}

RECURSIVE AmountOf(_)
AmountOf(rows) ==
    IF rows = {}
    THEN 0
    ELSE LET ri == CHOOSE r \in rows : TRUE
         IN  ri.amount + AmountOf(rows \ {ri})

\* the (name, unit) pairs of the ingredients of the cart recipes of the user
CartPairs(user) ==
    {<<Ingredient[ri.ingredient].name,
       Ingredient[ri.ingredient].measurement_unit>> :
        ri \in {r \in recipe_ingredients : r.recipe \in CartRecipes(user)}}

RowPair(row) ==
    <<row.ingredient__name.text, row.ingredient__measurement_unit.text>>

\* C11: in the rows fed to the export of a user, the total of each
\* (name, unit) pair is the sum of the amounts of that ingredient over the
\* recipes in the cart of the user, each recipe counted once
C11_CartTotals ==
    Exported =>
        /\ \A i \in 1..Len(last.summary) :
              LET row == last.summary[i]
              IN  row.total_amount =
                      IntValue(AmountOf(CartRows(last.user,
                                                 RowPair(row)[1],
                                                 RowPair(row)[2])))
        /\ \A pair \in CartPairs(last.user) :
              \E i \in 1..Len(last.summary) : RowPair(last.summary[i]) = pair

C11_Witness ==
    /\ Exported
    /\ last.user = "u1"
    /\ CartRecipes("u1") = {1, 2}
    /\ last.summary =
           <<[ingredient__name |-> StrValue("Flour"),
              ingredient__measurement_unit |-> StrValue("g"),
              total_amount |-> IntValue(2)],
             [ingredient__name |-> StrValue("Salt"),
              ingredient__measurement_unit |-> StrValue("g"),
              total_amount |-> IntValue(3)]>>

\* the texts the export of a user may hold in the current state
ExportOf(user) ==
    {generate_shopping_list_content(summary) :
        summary \in ingredients_summary(user)}

\* C12: a shopping-cart request of one user that adds or removes a record
\* leaves the export of every other user unchanged
C12_ExportIsolation ==
    [][\A user \in Users :
          (/\ last'.view = "shopping_cart"
           /\ last'.user # user
           /\ shopping_cart' # shopping_cart) =>
              ExportOf(user)' = ExportOf(user)]_vars

C12_Witness ==
    /\ last.view = "shopping_cart"
    /\ last.method = "POST"
    /\ last.user = "u2"
    /\ last.pk = 1
    /\ last.response.status = 201
    /\ CartRecipes("u1") = {1}
    /\ CartRecipes("u2") = {1}

\* C13: the rows handed to the renderer hold exactly one row per distinct
\* (name, unit) pair of the cart recipes of the user, in non-decreasing
\* order of name
C13_OneRowPerPairSorted ==
    Exported =>
        /\ {RowPair(last.summary[i]) : i \in 1..Len(last.summary)}
               = CartPairs(last.user)
        /\ Len(last.summary) = Cardinality(CartPairs(last.user))
        /\ \A i \in 1..(Len(last.summary) - 1) :
              NameRank(last.summary[i].ingredient__name.text)
                  <= NameRank(last.summary[i + 1].ingredient__name.text)

C13_Witness ==
    /\ Exported
    /\ Len(last.summary) = 3
    /\ RowPair(last.summary[1]) = <<"Flour", "g">>
    /\ RowPair(last.summary[2]) = <<"Salt", "pinch">>
    /\ RowPair(last.summary[3]) = <<"Salt", "g">>

\* C14: every row of an export has a total that is an integer >= 1, the
\* recipes being created and updated through the recipe API
C14_TotalsPositive ==
    Exported =>
        \A i \in 1..Len(last.summary) :
            /\ last.summary[i].total_amount.kind = "int"
            /\ last.summary[i].total_amount.val >= 1

C14_Witness ==
    /\ Exported
    /\ Len(last.summary) = 2
    /\ RowPair(last.summary[1]) = <<"Flour", "g">>
    /\ last.summary[1].total_amount = IntValue(2)
    /\ RowPair(last.summary[2]) = <<"Salt", "g">>
    /\ last.summary[2].total_amount = IntValue(1)


----------------------------------------------------------------------------
(* api/views.py: favorite and shopping_cart requests served at the same     *)
(* time. A request reads relation_exists, other requests may be served, and   *)
(* then it acts on what it read.                                              *)

Models == {"Favorite", "ShoppingCart"}

\* the rows of model.objects
Table(model) == IF model = "Favorite" THEN favorites ELSE shopping_cart

\* the @action a request for the model is routed to
ViewOf(model) == IF model = "Favorite" THEN "favorite" ELSE "shopping_cart"

\* the body of the one recipe created while the requests interleave; the
\* requests of the two users for it race on two pairs in each table
RelRecipeData == [ingredients |-> <<Item(1, 1)>>]

\* _manage_user_recipe_relation up to the read of relation_exists
ReceiveRelation(model, method, user, pk) ==
    /\ BagCardinality(in_flight) < MaxInFlight
    /\ IF ~is_authenticated(user)
       THEN /\ last' = [view |-> ViewOf(model), method |-> method,
                        user |-> user, pk |-> pk,
                        response |-> [status |-> 401]]
            /\ UNCHANGED in_flight
       ELSE IF pk \notin recipes
       THEN /\ last' = [view |-> ViewOf(model), method |-> method,
                        user |-> user, pk |-> pk,
                        response |-> ExceptionResponse("Http404")]
            /\ UNCHANGED in_flight
       ELSE /\ in_flight' = in_flight (+) SetToBag({
                    [model |-> model, method |-> method, user |-> user,
                     recipe |-> pk,
                     relation_exists |->
                         relation_exists(Table(model), user, pk)]})
            /\ UNCHANGED last
    /\ UNCHANGED <<recipes, lastId, nCreated, links, shopVars, codecVars,
                   renderVars, calls, arguments, locals, subscriptions, transactions>>

\* _manage_user_recipe_relation from "if request.method == 'POST'" on
FinishRelation(request) ==
    LET done == finish_relation(request.method, request.relation_exists,
                                Table(request.model), request.user,
                                request.recipe)
    IN  /\ BagIn(request, in_flight)
        /\ in_flight' = in_flight (-) SetToBag({request})
        /\ IF request.model = "Favorite"
           THEN favorites' = done.table /\ UNCHANGED shopping_cart
           ELSE shopping_cart' = done.table /\ UNCHANGED favorites
        /\ last' = [view |-> ViewOf(request.model),
                    method |-> request.method, user |-> request.user,
                    pk |-> request.recipe, response |-> done.response]
        /\ UNCHANGED <<recipes, lastId, nCreated, links, recipe_author, recipe_name,
                       recipe_ingredients, codecVars, renderVars, calls,
                       arguments, locals, subscriptions, transactions>>

\* filter(recipe=obj).exists(): the records of every user
_get_user_recipe_relation_anyUser(user, obj, related_model) ==
    \E other \in Users : relation_exists(Table(related_model), other, obj)

\* RecipeReadSerializer._get_user_recipe_relation
_get_user_recipe_relation(user, obj, related_model) ==
    IF ~is_authenticated(user)
    THEN FALSE
    ELSE relation_exists(Table(related_model), user, obj)

get_is_favorited(user, obj) ==
    _get_user_recipe_relation(user, obj, "Favorite")

get_is_in_shopping_cart(user, obj) ==
    _get_user_recipe_relation(user, obj, "ShoppingCart")

\* GET /api/recipes/<pk>/ answered with RecipeReadSerializer
RetrieveRecipe(user, pk) ==
    /\ last' = IF pk \notin recipes
               THEN [view |-> "recipe_retrieve", user |-> user, pk |-> pk,
                     response |-> ExceptionResponse("Http404")]
               ELSE [view |-> "recipe_retrieve", user |-> user, pk |-> pk,
                     response |->
                         [status |-> 200, id |-> pk,
                          name |-> recipe_name[pk],
                          ingredients |->
                              {[id |-> ri.ingredient, amount |-> ri.amount] :
                                  ri \in {row \in recipe_ingredients :
                                             row.recipe = pk}},
                          is_favorited |-> get_is_favorited(user, pk),
                          is_in_shopping_cart |->
                              get_is_in_shopping_cart(user, pk)]]
    /\ UNCHANGED <<recipes, lastId, nCreated, links, shopVars, codecVars,
                   renderVars, threadVars, subscriptions, transactions>>

NextRel ==
    \/ \E user \in Authors : nCreated = 0 /\ PostRecipe(user, RelRecipeData)
    \/ \E pk \in recipes : DestroyRecipe(pk)
    \/ \E model \in Models, method \in {"POST", "DELETE"}, user \in Users,
          pk \in 1..lastId :
          ReceiveRelation(model, method, user, pk)
    \/ \E request \in BagToSet(in_flight) : FinishRelation(request)
    \/ \E user \in Users \cup {AnonymousUser}, pk \in 1..lastId :
          RetrieveRecipe(user, pk)

SpecRel == Init /\ [][NextRel]_vars

\* C18: the favorites table and the shopping-cart table each hold at most
\* one record per (user, recipe) pair, however the requests interleave
C18_OneRecordPerPair ==
    \A user \in Users, recipe \in 1..lastId :
        /\ CopiesIn(Relation(user, recipe), favorites) <= 1
        /\ CopiesIn(Relation(user, recipe), shopping_cart) <= 1

\* two POSTs for one pair both read that no record exists; the first one
\* created the record and the second one was refused by the constraint
C18_Witness ==
    /\ last.view = "favorite"
    /\ last.method = "POST"
    /\ last.response.status = 500
    /\ last.pk \in recipes
    /\ CopiesIn(Relation(last.user, last.pk), favorites) = 1
    /\ CopiesIn(Relation(last.user, last.pk), shopping_cart) = 1


\* C19: the flags a recipe is read with are true exactly when the reader is
\* authenticated and a Favorite, respectively ShoppingCart, record exists
\* for (reader, recipe); an anonymous reader gets both flags false
C19_FlagsMatchRecords ==
    (last.view = "recipe_retrieve" /\ last.response.status = 200) =>
        IF last.user \in Users
        THEN /\ last.response.is_favorited
                  <=> CopiesIn(Relation(last.user, last.pk), favorites) > 0
             /\ last.response.is_in_shopping_cart
                  <=> CopiesIn(Relation(last.user, last.pk),
                               shopping_cart) > 0
        ELSE /\ ~last.response.is_favorited
             /\ ~last.response.is_in_shopping_cart

\* a reader with a Favorite record and no ShoppingCart record reads a recipe
\* that another user keeps in the shopping cart
C19_Witness ==
    /\ last.view = "recipe_retrieve"
    /\ last.response.status = 200
    /\ last.user \in Users
    /\ last.response.is_favorited
    /\ ~last.response.is_in_shopping_cart
    /\ \E other \in Users \ {last.user} :
          CopiesIn(Relation(other, last.pk), shopping_cart) > 0


----------------------------------------------------------------------------
(* api/utils.py called from several threads at the same time. A call runs    *)
(* one statement or one loop iteration at a step, and the steps of the        *)
(* threads interleave. The names a function assigns are local to the call.    *)

\* every call is given the frame of one thread
Cell_shared(t) == "t1"

\* the frame that holds the local variables of the call thread t makes
Cell(t) == t

\* the calls the threads make
CallInputs ==
    {[fn |-> "encode_base62", args |-> [number |-> value]] :
        value \in {IntValue(0), IntValue(125), IntValue(-1),
                   [kind |-> "float", val |-> 125]}}
    \cup {[fn |-> "decode_base62", args |-> [encoded_str |-> str]] :
             str \in {<<>>, <<"2", "1">>, <<"0", "-">>}}
    \cup {[fn |-> "generate_shopping_list_content",
           args |-> [ingredients_queryset |-> queryset]] :
             queryset \in
                 {<<>>,
                  <<[ingredient__name |-> StrValue("Flour"),
                     ingredient__measurement_unit |-> StrValue("g"),
                     total_amount |-> IntValue(500)]>>,
                  <<[ingredient__name |-> StrValue("Flour"),
                     ingredient__measurement_unit |-> StrValue("g"),
                     total_amount |-> IntValue(500)],
                    [ingredient__name |-> StrValue("Sugar"),
                     total_amount |-> IntValue(200)]>>}}

\* the thread is inside a call
Running(t) == calls[t].pc \notin {"idle", "returned"}

\* thread t calls fn(args)
Call(t, fn, args) ==
    /\ ~Running(t)
    /\ calls' = [other \in Threads |->
                    IF other = t
                    THEN [pc |-> "called", fn |-> fn, given |-> args,
                          result |-> NotCalled,
                          overlapped |->
                              \E running \in Threads \ {t} : Running(running)]
                    ELSE IF Running(other)
                    THEN [calls[other] EXCEPT !.overlapped = TRUE]
                    ELSE calls[other]]
    /\ arguments' = [arguments EXCEPT ![t] = args]
    /\ locals' = [locals EXCEPT ![Cell(t)] = NewFrame]
    /\ UNCHANGED <<codecVars, siteVars, renderVars, shopVars, in_flight,
                   subscriptions, transactions>>

\* the call of thread t goes on at pc with its locals set to frame
Goto(t, pc, frame) ==
    /\ calls' = [calls EXCEPT ![t].pc = pc]
    /\ locals' = [locals EXCEPT ![Cell(t)] = frame]

\* the call of thread t returns or raises
Leave(t, outcome) ==
    /\ calls' = [calls EXCEPT ![t].pc = "returned", ![t].result = outcome]
    /\ UNCHANGED locals

\* one step of encode_base62
EncodeStep(t) ==
    LET frame == locals[Cell(t)]
        value == arguments[t].number
    IN  /\ calls[t].fn = "encode_base62"
        /\ \/ /\ calls[t].pc = "called"
              /\ IF ~isinstance_int(value) \/ value.val < 0
                 THEN Leave(t, Raise("ValueError"))
                 ELSE IF value.val = 0
                 THEN Leave(t, Ok(<<BASE62_ALPHABET[1]>>))
                 ELSE Goto(t, "while",
                           [frame EXCEPT !.number = value.val,
                                         !.encoded = <<>>])
           \/ /\ calls[t].pc = "while"
              /\ IF frame.number > 0
                 THEN Goto(t, "while",
                           [frame EXCEPT
                               !.number = frame.number \div BASE,
                               !.encoded =
                                   <<BASE62_ALPHABET[(frame.number % BASE) + 1]>>
                                       \o frame.encoded])
                 ELSE Leave(t, Ok(frame.encoded))
        /\ UNCHANGED <<codecVars, siteVars, renderVars, shopVars, in_flight,
                       arguments, subscriptions, transactions>>

\* one step of decode_base62
DecodeStep(t) ==
    LET frame == locals[Cell(t)]
        encoded_string == arguments[t].encoded_str
    IN  /\ calls[t].fn = "decode_base62"
        /\ \/ /\ calls[t].pc = "called"
              /\ Goto(t, "for", [frame EXCEPT !.decoded = 0, !.i = 0])
           \/ /\ calls[t].pc = "for"
              /\ IF frame.i >= Len(encoded_string)
                 THEN Leave(t, Ok(frame.decoded))
                 ELSE LET index == Index(encoded_string[frame.i + 1])
                      IN  IF index.exc # "none"
                          THEN Leave(t, Raise(index.exc))
                          ELSE Goto(t, "for",
                                    [frame EXCEPT
                                        !.decoded =
                                            frame.decoded + index.val
                                                * Pow(BASE,
                                                      Power(Len(encoded_string),
                                                            frame.i)),
                                        !.i = frame.i + 1])
        /\ UNCHANGED <<codecVars, siteVars, renderVars, shopVars, in_flight,
                       arguments, subscriptions, transactions>>

\* one step of generate_shopping_list_content; an iteration of its for loop
\* is RenderLoop run over the one item the iteration is at
RenderStep(t) ==
    LET frame == locals[Cell(t)]
        queryset == arguments[t].ingredients_queryset
    IN  /\ calls[t].fn = "generate_shopping_list_content"
        /\ \/ /\ calls[t].pc = "called"
              /\ IF Len(queryset) = 0
                 THEN Goto(t, "join",
                           [frame EXCEPT !.shopping_list_parts =
                                             <<(<<HEADER>>), (<<EMPTY_LIST>>)>>])
                 ELSE Goto(t, "for",
                           [frame EXCEPT !.shopping_list_parts =
                                             <<(<<HEADER>>)>>,
                                         !.item = 1])
           \/ /\ calls[t].pc = "for"
              /\ IF frame.item > Len(queryset)
                 THEN Goto(t, "join", frame)
                 ELSE LET done == RenderLoop(<<queryset[frame.item]>>, 1,
                                             frame.shopping_list_parts)
                      IN  IF done.exc # "none"
                          THEN Leave(t, Raise(done.exc))
                          ELSE Goto(t, "for",
                                    [frame EXCEPT
                                        !.shopping_list_parts = done.val,
                                        !.item = frame.item + 1])
           \/ /\ calls[t].pc = "join"
              /\ Leave(t, Ok(Join(frame.shopping_list_parts)))
        /\ UNCHANGED <<codecVars, siteVars, renderVars, shopVars, in_flight,
                       arguments, subscriptions, transactions>>

NextCalls ==
    \/ \E t \in Threads, call \in CallInputs : Call(t, call.fn, call.args)
    \/ \E t \in Threads : EncodeStep(t)
    \/ \E t \in Threads : DecodeStep(t)
    \/ \E t \in Threads : RenderStep(t)

SpecCalls == Init /\ [][NextCalls]_vars

\* what the call returns when no other call runs
Alone(fn, args) ==
    CASE fn = "encode_base62" -> encode_base62(args.number)
      [] fn = "decode_base62" -> decode_base62(args.encoded_str)
      [] fn = "generate_shopping_list_content" ->
             generate_shopping_list_content(args.ingredients_queryset)

\* C20: however the steps of concurrent calls interleave, a call returns
\* what it returns when run alone on the same input, and the object it was
\* given is as it was when the call was made
C20_CallsIndependent ==
    \A t \in Threads :
        calls[t].pc = "returned" =>
            /\ calls[t].result = Alone(calls[t].fn, calls[t].given)
            /\ arguments[t] = calls[t].given

\* both threads have returned from calls that ran at the same time, one from
\* encode_base62(125) and one from generate_shopping_list_content of two rows
C20_Witness ==
    /\ \A t \in Threads : calls[t].pc = "returned" /\ calls[t].overlapped
    /\ \E t \in Threads :
          /\ calls[t].fn = "encode_base62"
          /\ calls[t].given = [number |-> IntValue(125)]
          /\ calls[t].result = Ok(<<"2", "1">>)
    /\ \E t \in Threads :
          /\ calls[t].fn = "generate_shopping_list_content"
          /\ Len(calls[t].given.ingredients_queryset) = 2
          /\ calls[t].result.exc = "none"


----------------------------------------------------------------------------
(* api/views.py: favorite and shopping_cart requests served one at a time *)

\* favorite() handing the ShoppingCart model to the handler
FavoriteRequest_cartModel(method, user, pk) ==
    LET done == _manage_user_recipe_relation(method, user, pk, shopping_cart)
    IN  /\ shopping_cart' = done.table
        /\ last' = [view |-> "favorite", method |-> method,
                    user |-> user, pk |-> pk, response |-> done.response]
        /\ UNCHANGED <<recipes, lastId, nCreated, links, recipe_author, recipe_name,
                       recipe_ingredients, favorites, codecVars,
                       renderVars, threadVars, subscriptions, transactions>>

\* POST or DELETE /api/recipes/<pk>/favorite/
FavoriteRequest(method, user, pk) ==
    LET done == _manage_user_recipe_relation(method, user, pk, favorites)
    IN  /\ favorites' = done.table
        /\ last' = [view |-> "favorite", method |-> method,
                    user |-> user, pk |-> pk, response |-> done.response]
        /\ UNCHANGED <<recipes, lastId, nCreated, links, recipe_author, recipe_name,
                       recipe_ingredients, shopping_cart, codecVars,
                       renderVars, threadVars, subscriptions, transactions>>

NextShop ==
    \/ \E user \in Authors : PostRecipe(user, RelRecipeData)
    \/ \E pk \in recipes : DestroyRecipe(pk)
    \/ \E method \in {"POST", "DELETE"}, user \in Users, pk \in 1..lastId :
          FavoriteRequest(method, user, pk)
    \/ \E method \in {"POST", "DELETE"}, user \in Users, pk \in 1..lastId :
          ShoppingCartRequest(method, user, pk)

SpecShop == Init /\ [][NextShop]_vars

\* the step serves a favorite or shopping_cart request of an authenticated
\* user for a stored recipe
RelationStep ==
    /\ last'.view \in {"favorite", "shopping_cart"}
    /\ last'.user \in Users
    /\ last'.pk \in recipes

\* the table the request of the step is about, before and after the step
TableBefore == IF last'.view = "favorite" THEN favorites ELSE shopping_cart
TableAfter == IF last'.view = "favorite" THEN favorites' ELSE shopping_cart'

\* the record the request of the step is about
RequestedRow == Relation(last'.user, last'.pk)

\* C21: a POST for an existing record and a DELETE for a missing one are
\* answered 400 and leave the records as they are; a POST for a missing
\* record adds exactly that record (201) and a DELETE for an existing one
\* removes exactly that record (204)
C21_RelationRequests ==
    [][RelationStep =>
          IF last'.method = "POST"
          THEN IF BagIn(RequestedRow, TableBefore)
               THEN /\ last'.response.status = 400
                    /\ TableAfter = TableBefore
               ELSE /\ last'.response.status = 201
                    /\ TableAfter = TableBefore (+) SetToBag({RequestedRow})
          ELSE IF BagIn(RequestedRow, TableBefore)
               THEN /\ last'.response.status = 204
                    /\ TableAfter = TableBefore (-) SetToBag({RequestedRow})
               ELSE /\ last'.response.status = 400
                    /\ TableAfter = TableBefore]_vars

\* a favorite POST has been refused with 400 since the record exists, while
\* the shopping cart holds a record as well
C21_Witness ==
    /\ last.view = "favorite"
    /\ last.method = "POST"
    /\ last.response.status = 400
    /\ BagIn(Relation(last.user, last.pk), favorites)
    /\ BagCardinality(shopping_cart) > 0


\* C22: a favorite or shopping_cart POST of an authenticated user for a
\* stored recipe is answered 201 or 400, also when another POST for the same
\* user and recipe is served between its read and its write
C22_PostOutcomes ==
    (/\ last.view \in {"favorite", "shopping_cart"}
     /\ last.method = "POST"
     /\ last.user \in Users
     /\ last.pk \in recipes) =>
        last.response.status \in {201, 400}


----------------------------------------------------------------------------
(* The shopping cart over time *)

InCart(user, recipe) == BagIn(Relation(user, recipe), shopping_cart)

\* the step answers the shopping_cart request of the user for the recipe
\* with that status
CartAnswer(method, user, recipe, status) ==
    /\ last'.view = "shopping_cart"
    /\ last'.method = method
    /\ last'.user = user
    /\ last'.pk = recipe
    /\ last'.response.status = status

\* the (name, unit) pairs of the stored ingredients
IngredientPairs ==
    {<<Ingredient[id].name, Ingredient[id].measurement_unit>> :
        id \in 1..Len(Ingredient)}

\* the amount the stored rows of the recipe give for the pair
RecipeAmount(recipe, pair) ==
    AmountOf({ri \in recipe_ingredients :
                 /\ ri.recipe = recipe
                 /\ Ingredient[ri.ingredient].name = pair[1]
                 /\ Ingredient[ri.ingredient].measurement_unit = pair[2]})

\* what the recipes up to id n add to the total of the pair for the user:
\* a recipe in the cart adds its amount, a recipe outside adds nothing
RECURSIVE Contributions(_, _, _)
Contributions(user, pair, n) ==
    IF n = 0
    THEN 0
    ELSE (IF InCart(user, n) THEN RecipeAmount(n, pair) ELSE 0)
             + Contributions(user, pair, n - 1)

\* the total the rows give for the pair, 0 when no row is about it
RECURSIVE TotalOf(_, _, _)
TotalOf(summary, pair, i) ==
    IF i > Len(summary)
    THEN 0
    ELSE (IF RowPair(summary[i]) = pair
          THEN summary[i].total_amount.val
          ELSE 0)
             + TotalOf(summary, pair, i + 1)

\* the rows of an export count each recipe in the cart of the user and
\* nothing else
ExportCounts ==
    Exported =>
        \A pair \in IngredientPairs :
            TotalOf(last.summary, pair, 1) =
                Contributions(last.user, pair, lastId)

\* C23: a recipe enters the cart of a user by a shopping_cart POST of that
\* user answered 201 and only so; it leaves the cart by a DELETE of that user
\* answered 204 and otherwise only when the recipe itself is deleted; every
\* export of the user in between counts the amounts of the ingredients of
\* each recipe in the cart and nothing for a recipe that is not in it
C23_CartUntilRemoved ==
    [][/\ (last'.view = "shopping_cart" \/ shopping_cart' # shopping_cart) =>
             \A user \in Users, recipe \in 1..lastId :
                 /\ CartAnswer("POST", user, recipe, 201) =>
                        InCart(user, recipe)'
                 /\ CartAnswer("DELETE", user, recipe, 204) =>
                        ~InCart(user, recipe)'
                 /\ (~InCart(user, recipe) /\ InCart(user, recipe)') =>
                        CartAnswer("POST", user, recipe, 201)
                 /\ (InCart(user, recipe) /\ ~InCart(user, recipe)') =>
                        \/ CartAnswer("DELETE", user, recipe, 204)
                        \/ recipe \notin recipes'
       /\ ExportCounts']_vars

\* an export of a user who keeps recipe 2 in the cart and not recipe 1,
\* which is stored as well
C23_Witness ==
    /\ Exported
    /\ last.user = "u1"
    /\ recipes = {1, 2}
    /\ InCart("u1", 2)
    /\ ~InCart("u1", 1)
    /\ Len(last.summary) > 0


\* every (user, recipe) pair a record can be about
Pairs == {Relation(user, recipe) : user \in Users, recipe \in 1..lastId}

\* C24: a favorite request leaves the shopping-cart records as they are and
\* a shopping_cart request leaves the favorite records as they are; neither
\* changes a record of another user or of another recipe
C24_RelationsIndependent ==
    [][last'.view \in {"favorite", "shopping_cart"} =>
          /\ last'.view = "favorite" => shopping_cart' = shopping_cart
          /\ last'.view = "shopping_cart" => favorites' = favorites
          /\ \A row \in Pairs \ {RequestedRow} :
                /\ CopiesIn(row, favorites') = CopiesIn(row, favorites)
                /\ CopiesIn(row, shopping_cart') =
                       CopiesIn(row, shopping_cart)]_vars

\* a favorite record has been created for a pair while the shopping cart
\* holds a record of the other user for the recipe, the favorites hold a
\* record of the user for another recipe, and the pair has no cart record
C24_Witness ==
    /\ last.view = "favorite"
    /\ last.method = "POST"
    /\ last.response.status = 201
    /\ ~BagIn(Relation(last.user, last.pk), shopping_cart)
    /\ \E other \in Users \ {last.user} :
          BagIn(Relation(other, last.pk), shopping_cart)
    /\ \E recipe \in recipes \ {last.pk} :
          BagIn(Relation(last.user, recipe), favorites)

----------------------------------------------------------------------------
(* subscriptions/models.py and api/views.py: UserViewSet.subscribe *)

\* the User rows: the two users who send requests and one more account
UserIds == Users \cup {"u3"}

\* an id in the URL that names no User row
MissingUserId == "u9"

Subscription(user, author) == [user |-> user, author |-> author]

\* Subscription.objects.filter(user=user, author=author).exists()
subscription_exists(table, user, author) ==
    BagIn(Subscription(user, author), table)

\* Subscription.objects.create(user=user, author=author): the INSERT is
\* refused by the UniqueConstraint on (user, author) and by the
\* CheckConstraint prevent_self_subscription
Subscription_objects_create(table, user, author) ==
    IF user = author \/ BagIn(Subscription(user, author), table)
    THEN Raise("IntegrityError")
    ELSE Ok(table (+) SetToBag({Subscription(user, author)}))

\* Subscription.objects.filter(user=user, author=author).delete()
Subscription_objects_delete(table, user, author) ==
    [row \in DOMAIN table \ {Subscription(user, author)} |-> table[row]]

\* the handler after the test user == author
subscribe_checked_idempotent(method, user, author, table) ==
    IF method = "POST"
    THEN [response |-> [status |-> 201],
          table |-> IF subscription_exists(table, user, author)
                    THEN table
                    ELSE table (+) SetToBag({Subscription(user, author)})]
    ELSE [response |-> [status |-> 204],
          table |-> Subscription_objects_delete(table, user, author)]

\* the handler after the test user == author: the existence check, then
\* the branch of the request method
subscribe_checked(method, user, author, table) ==
    LET exists == subscription_exists(table, user, author)
    IN  IF method = "POST"
        THEN IF exists
             THEN [response |-> [status |-> 400], table |-> table]
             ELSE LET created ==
                          Subscription_objects_create(table, user, author)
                  IN  IF created.exc # "none"
                      THEN [response |-> ExceptionResponse(created.exc),
                            table |-> table]
                      ELSE [response |-> [status |-> 201],
                            table |-> created.val]
        ELSE IF ~exists
             THEN [response |-> [status |-> 400], table |-> table]
             ELSE [response |-> [status |-> 204],
                   table |->
                       Subscription_objects_delete(table, user, author)]

\* a handler without the test user == author
subscribe_noSelfTest(method, user, id, table) ==
    IF ~is_authenticated(user)
    THEN [response |-> [status |-> 401], table |-> table]
    ELSE IF id \notin UserIds
    THEN [response |-> ExceptionResponse("Http404"), table |-> table]
    ELSE subscribe_checked(method, user, id, table)

\* UserViewSet.subscribe under permissions.IsAuthenticated
subscribe(method, user, id, table) ==
    IF ~is_authenticated(user)
    THEN [response |-> [status |-> 401], table |-> table]
    ELSE IF id \notin UserIds
    THEN [response |-> ExceptionResponse("Http404"), table |-> table]
    ELSE IF user = id
    THEN [response |-> [status |-> 400], table |-> table]
    ELSE subscribe_checked(method, user, id, table)

\* POST or DELETE /api/users/<id>/subscribe/
SubscribeRequest(method, user, id) ==
    LET done == subscribe(method, user, id, subscriptions)
    IN  /\ subscriptions' = done.table
        /\ last' = [view |-> "subscribe", method |-> method, user |-> user,
                    id |-> id, response |-> done.response]
        /\ UNCHANGED <<recipes, lastId, nCreated, links, shopVars,
                       codecVars, renderVars, threadVars, transactions>>

NextSubs ==
    \E method \in {"POST", "DELETE"}, user \in Users \cup {AnonymousUser},
       id \in UserIds \cup {MissingUserId} :
        SubscribeRequest(method, user, id)

SpecSubs == Init /\ [][NextSubs]_vars

\* the subscribe request answered in this step
SubscribeStep == last'.view = "subscribe"

\* C25: no Subscription row has its user equal to its author, and a
\* subscribe POST or DELETE whose target is the requester is answered 400
\* and leaves the subscriptions unchanged
C25_NoSelfSubscription ==
    [][/\ \A row \in BagToSet(subscriptions') : row.user # row.author
       /\ (SubscribeStep /\ is_authenticated(last'.user)
              /\ last'.id = last'.user)
          => /\ last'.response.status = 400
             /\ subscriptions' = subscriptions]_vars

C25_Witness ==
    /\ last.view = "subscribe"
    /\ last.method = "POST"
    /\ last.user = last.id
    /\ last.response.status = 400
    /\ subscriptions # EmptyBag

----------------------------------------------------------------------------
(* api/views.py: RecipeViewSet under IsAuthorOrReadOnly *)

\* DELETE /api/recipes/<pk>/: has_permission, get_object,
\* has_object_permission, then the delete with its cascades
DeleteRecipe(user, pk) ==
    LET refused == Refusal("DELETE", user, pk)
    IN  /\ last' = [view |-> "recipe_destroy", user |-> user, pk |-> pk,
                    response |->
                        [status |-> IF refused # 0 THEN refused ELSE 204]]
        /\ IF refused # 0
           THEN UNCHANGED <<recipes, shopVars>>
           ELSE /\ recipes' = recipes \ {pk}
                /\ recipe_author' =
                       [r \in DOMAIN recipe_author \ {pk} |->
                           recipe_author[r]]
                /\ recipe_name' =
                       [r \in DOMAIN recipe_name \ {pk} |-> recipe_name[r]]
                /\ recipe_ingredients' =
                       {ri \in recipe_ingredients : ri.recipe # pk}
                /\ shopping_cart' = CascadeRecipe(shopping_cart, pk)
                /\ favorites' = CascadeRecipe(favorites, pk)
        /\ UNCHANGED <<lastId, nCreated, links, codecVars, renderVars,
                       threadVars, subscriptions, transactions>>

\* the users who send requests to the recipe API
Requesters == Users \cup {AnonymousUser}

\* request bodies of the recipe API: an empty list, a list of two
\* ingredients, a repeated ingredient, an amount below the minimum, an
\* ingredient that is not stored, a body without the list, a body with a name
RecipeBodies ==
    {[ingredients |-> list] :
        list \in {<<>>,
                  <<Item(1, 1), Item(2, 2)>>,
                  <<Item(2, 1), Item(2, 2)>>,
                  <<Item(2, 0)>>,
                  <<Item(4, 1)>>}}
        \cup {[name |-> "recipe"],
              [ingredients |-> <<Item(2, 3)>>, name |-> "renamed"]}

NextRecipes ==
    \/ \E user \in Requesters, data \in RecipeBodies : PostRecipe(user, data)
    \/ \E user \in Requesters, pk \in 1..lastId, data \in RecipeBodies :
          UpdateRecipe(user, pk, data)
    \/ \E user \in Requesters, pk \in 1..lastId : DeleteRecipe(user, pk)
    \/ \E user \in Requesters, pk \in 1..lastId : RetrieveRecipe(user, pk)

SpecRecipes == Init /\ [][NextRecipes]_vars

\* the RecipeIngredient rows of a stored recipe
RowsOf(pk) == {ri \in recipe_ingredients : ri.recipe = pk}

\* every stored recipe has a row, one row per ingredient, amounts of 1 or more
RecipesWellFormed ==
    \A pk \in recipes :
        /\ RowsOf(pk) # {}
        /\ \A row, other \in RowsOf(pk) :
              row.ingredient = other.ingredient => row = other
        /\ \A row \in RowsOf(pk) : row.amount >= 1

\* a body whose ingredient list is empty, repeats an ingredient or has an
\* amount below 1
BadIngredients(data) ==
    /\ "ingredients" \in DOMAIN data
    /\ \/ data.ingredients = <<>>
       \/ \E i, j \in 1..Len(data.ingredients) :
             i # j /\ data.ingredients[i].id = data.ingredients[j].id
       \/ \E i \in 1..Len(data.ingredients) : data.ingredients[i].amount < 1

\* the recipe create or update request answered in this step
RecipeWriteStep == last'.view \in {"recipe_create", "recipe_update"}

\* C27: every stored recipe has at least one ingredient row, no two rows for
\* one ingredient and amounts of 1 or more; a create or update whose
\* ingredient list is empty, repeats an ingredient or has an amount below 1
\* is refused, with 400 when the requester may write, and changes no stored
\* recipe
C27_RecipeIngredientsValid ==
    [][/\ RecipesWellFormed'
       /\ (RecipeWriteStep /\ BadIngredients(last'.data))
          => /\ last'.response.status \in {400, 401, 403, 404}
             /\ (/\ is_authenticated(last'.user)
                 /\ last'.view = "recipe_update"
                       => /\ last'.pk \in recipes
                          /\ recipe_author[last'.pk] = last'.user)
                => last'.response.status = 400
             /\ UNCHANGED <<recipes, recipe_author, recipe_name,
                            recipe_ingredients>>]_vars

C27_Witness ==
    /\ last.view = "recipe_update"
    /\ BadIngredients(last.data)
    /\ Len(last.data.ingredients) = 2
    /\ last.response.status = 400
    /\ Cardinality(RowsOf(last.pk)) = 2
    /\ RecipesWellFormed

\* C29: an update or delete of a stored recipe requested by an anonymous
\* user (401) or by a user who is not its author (403) is refused and leaves
\* the recipe and its ingredient rows unchanged; whenever a recipe is changed
\* or deleted the requester is its author; a read of a stored recipe is
\* answered 200 to every requester
C29_AuthorOnlyWrites ==
    [][/\ (/\ last'.view \in {"recipe_update", "recipe_destroy"}
           /\ last'.pk \in recipes
           /\ last'.user # recipe_author[last'.pk])
          => /\ last'.response.status
                    = IF is_authenticated(last'.user) THEN 403 ELSE 401
             /\ UNCHANGED <<recipes, recipe_author, recipe_name,
                            recipe_ingredients>>
       /\ \A pk \in recipes :
              (\/ pk \notin recipes'
               \/ recipe_name'[pk] # recipe_name[pk]
               \/ recipe_author'[pk] # recipe_author[pk]
               \/ RowsOf(pk)' # RowsOf(pk))
                  => last'.user = recipe_author[pk]
       /\ (last'.view = "recipe_retrieve" /\ last'.pk \in recipes)
          => last'.response.status = 200]_vars

C29_Witness ==
    /\ last.view = "recipe_destroy"
    /\ last.user \in Users
    /\ last.pk \in recipes
    /\ recipe_author[last.pk] # last.user
    /\ last.response.status = 403
    /\ RowsOf(last.pk) # {}

----------------------------------------------------------------------------
(* api/serializers.py: RecipeWriteSerializer.update, statement by statement *)

\* the largest value a PositiveSmallIntegerField column takes on a database
\* that enforces the column type
SMALLINT_MAX == 32767

\* what the database shows of a recipe: its fields and its ingredient rows
Stored(pk) == [name |-> recipe_name[pk], rows |-> RowsOf(pk)]

\* statements that take effect one by one, each visible at once and none
\* undone
transaction_atomic_autocommit(stored, working, committed) == working

\* @transaction.atomic: the statements of the block act on the working copy
\* of the transaction; the database shows it to others once the block has
\* returned, and never when the block is left by an exception
transaction_atomic(stored, working, committed) ==
    IF committed THEN working ELSE stored

\* the database after a statement of a transaction on the recipe pk
Execute(pk, working, committed) ==
    LET shown == transaction_atomic(Stored(pk), working, committed)
    IN  /\ recipe_name' = [recipe_name EXCEPT ![pk] = shown.name]
        /\ recipe_ingredients' =
               {ri \in recipe_ingredients : ri.recipe # pk} \cup shown.rows

\* RecipeIngredient.objects.bulk_create: the outcomes of the INSERT. An
\* amount above the range of the column is refused by a database that
\* enforces the range and stored by one that does not.
bulk_create(recipe, ingredients_data) ==
    {Ok(_create_ingredients(recipe, ingredients_data))}
        \cup IF \E i \in 1..Len(ingredients_data) :
                    ingredients_data[i].amount > SMALLINT_MAX
             THEN {Raise("DataError")}
             ELSE {}

\* PUT or PATCH /api/recipes/<pk>/ up to the call of serializer.save(); of
\* the requests of one user with one body for one recipe, one is followed
\* at a time
BeginUpdate(user, pk, data) ==
    LET validated == run_validation(data)
        refused ==
            IF Refusal("PATCH", user, pk) # 0
            THEN Refusal("PATCH", user, pk)
            ELSE IF validated.exc # "none" THEN 400
            ELSE 0
        request == [user |-> user, pk |-> pk, data |-> data,
                    pc |-> "update",
                    working |-> [name |-> "", rows |-> {}]]
    IN  /\ IF refused # 0
           THEN /\ last' = [view |-> "recipe_update", user |-> user,
                            data |-> data, pk |-> pk,
                            response |-> [status |-> refused]]
                /\ UNCHANGED transactions
           ELSE /\ \A tx \in transactions :
                     <<tx.user, tx.pk, tx.data>> # <<user, pk, data>>
                /\ transactions' = transactions \cup {request}
                /\ UNCHANGED last
        /\ UNCHANGED <<recipes, lastId, nCreated, links, shopVars,
                       codecVars, renderVars, threadVars, subscriptions>>

\* a transaction moves on
Proceed(tx, pc, working) ==
    transactions' =
        (transactions \ {tx})
            \cup {[tx EXCEPT !.pc = pc, !.working = working]}

\* super().update(instance, validated_data): the UPDATE of the Recipe row,
\* which waits for the transaction that holds the lock of that row
UpdateFields(tx) ==
    /\ tx.pc = "update"
    /\ \A other \in transactions : other.pk = tx.pk => other.pc = "update"
    /\ LET working == [name |-> NameOf(tx.data), rows |-> RowsOf(tx.pk)]
       IN  /\ Proceed(tx, "delete", working)
           /\ Execute(tx.pk, working, FALSE)
    /\ UNCHANGED <<recipes, lastId, nCreated, links, last, recipe_author,
                   shopping_cart, favorites, codecVars, renderVars,
                   threadVars, subscriptions>>

\* recipe.recipe_ingredients.all().delete()
DeleteIngredients(tx) ==
    /\ tx.pc = "delete"
    /\ LET working == [tx.working EXCEPT !.rows = {}]
       IN  /\ Proceed(tx, "create", working)
           /\ Execute(tx.pk, working, FALSE)
    /\ UNCHANGED <<recipes, lastId, nCreated, links, last, recipe_author,
                   shopping_cart, favorites, codecVars, renderVars,
                   threadVars, subscriptions>>

\* self._create_ingredients(recipe, ingredients_data) and the end of the
\* atomic block: commit on return, rollback on an exception
CreateIngredients(tx) ==
    /\ tx.pc = "create"
    /\ \E created \in bulk_create(tx.pk, tx.data.ingredients) :
          LET working ==
                  IF created.exc # "none"
                  THEN tx.working
                  ELSE [tx.working EXCEPT
                            !.rows = tx.working.rows \cup created.val]
          IN  /\ Execute(tx.pk, working, created.exc = "none")
              /\ last' = [view |-> "recipe_update", user |-> tx.user,
                          data |-> tx.data, pk |-> tx.pk,
                          response |->
                              IF created.exc # "none"
                              THEN ExceptionResponse(created.exc)
                              ELSE [status |-> 200]]
    /\ transactions' = transactions \ {tx}
    /\ UNCHANGED <<recipes, lastId, nCreated, links, recipe_author,
                   shopping_cart, favorites, codecVars, renderVars,
                   threadVars, subscriptions>>

\* the bodies of the updates: a renamed recipe, a list with an amount above
\* the range of the column, an empty list
UpdateBodies ==
    {[ingredients |-> <<Item(2, 3)>>, name |-> "renamed"],
     [ingredients |-> <<Item(1, 1), Item(3, SMALLINT_MAX + 1)>>],
     [ingredients |-> <<>>]}

NextUpdate ==
    \/ \E user \in Authors : nCreated = 0 /\ PostRecipe(user, RelRecipeData)
    \/ \E user \in Users, pk \in recipes, data \in UpdateBodies :
          BeginUpdate(user, pk, data)
    \/ \E tx \in transactions : UpdateFields(tx)
    \/ \E tx \in transactions : DeleteIngredients(tx)
    \/ \E tx \in transactions : CreateIngredients(tx)
    \/ \E user \in Requesters, pk \in recipes : RetrieveRecipe(user, pk)
    \/ \E method \in {"POST", "DELETE"}, user \in Users \ Authors,
          pk \in recipes :
          ShoppingCartRequest(method, user, pk)
    \/ \E user \in Users \ Authors : DownloadShoppingCart(user)

SpecUpdate == Init /\ [][NextUpdate]_vars

\* the transactions that end in this step
Ended ==
    {tx \in transactions :
        \A next \in transactions' :
            <<next.user, next.pk, next.data>> # <<tx.user, tx.pk, tx.data>>}

\* the ingredient lists a reader can be shown in full: the one the recipe
\* was created with and the ones submitted by updates
CompleteLists ==
    {{[id |-> data.ingredients[i].id, amount |-> data.ingredients[i].amount] :
         i \in 1..Len(data.ingredients)} :
        data \in {RelRecipeData} \cup UpdateBodies} \ {{}}

C28_FailureWitness ==
    /\ last.view = "recipe_update"
    /\ last.response.status = 500
    /\ last.pk \in recipes
    /\ Stored(last.pk) = [name |-> "recipe",
                          rows |-> _create_ingredients(last.pk,
                                       RelRecipeData.ingredients)]

====
